---- MODULE Spec2Model ----
(***************************************************************************)
(* Model of app.py, the internet-usage dashboard: the centroid extractor   *)
(* load_country_centroids, the left merge of the usage table with the      *)
(* centroid table, and the script body that filters by the selected entity *)
(* and builds the choropleth figure.  Streamlit reruns the script body on  *)
(* every widget interaction; load_country_centroids is memoised.           *)
(***************************************************************************)
EXTENDS Integers, Sequences, FiniteSets, TLC

VARIABLES
    geo_file,         \* state of data/raw/countries.geojson: "missing", "corrupt", "ok"
    csv_file,         \* rows of the usage CSV file
    pc,               \* "start", "loop" (inside the for loop), "idle" (script ran), "aborted"
    n,                \* number of features the for loop has taken from the file
    feature,          \* the loop variable: <<>> or <<the feature being processed>>
    centroids,        \* the list `centroids`
    exception,        \* "none" or the exception that ended the script
    error_shown,      \* st.error was called
    inet_df,          \* [geo |-> lat/lon columns exist, rows |-> rows] after the merge
    selected_entity,  \* value of the selectbox
    show_data,        \* checkbox "Show dataframe"
    show_map,         \* checkbox "Show Map"
    filtered_df,      \* rows of filtered_df
    dataframe,        \* <<>> or <<rows handed to st.dataframe>>
    color_range,      \* <<>> or <<min, max>>
    chart             \* <<>> or <<the figure handed to st.plotly_chart>>

vars == <<geo_file, csv_file, pc, n, feature, centroids, exception, error_shown, inet_df,
          selected_entity, show_data, show_map, filtered_df, dataframe, color_range,
          chart>>

\* Longest feature collection and longest usage table explored.
MaxFeatures == 2
MaxRows == 2

(***************************************************************************)
(* Values                                                                  *)
(***************************************************************************)
\* Python's None (dict.get on a missing key).
None == "None"
\* A float is a reduced fraction <<num, den>>, den > 0; NaN is <<0, 0>>.
NaN == <<0, 0>>

Abs(x) == IF x < 0 THEN -x ELSE x

RECURSIVE GCD(_, _)
GCD(a, b) == IF b = 0 THEN a ELSE GCD(b, a % b)

Frac(num, den) ==
    LET g == GCD(Abs(num), den)
    IN  <<num \div g, den \div g>>

RECURSIVE Sum(_)
Sum(s) == IF s = <<>> THEN 0 ELSE Head(s) + Sum(Tail(s))

\* Column k (1 = x, 2 = y) of a sequence of points.
Column(points, k) == [i \in 1..Len(points) |-> points[i][k]]

\* np.mean(points, axis=0) for a non-empty array of [x, y] points.
MeanAxis0(points) ==
    <<Frac(Sum(Column(points, 1)), Len(points)),
      Frac(Sum(Column(points, 2)), Len(points))>>

(***************************************************************************)
(* Inputs: the features a geometry file may hold                           *)
(***************************************************************************)
\* A Polygon with a hole: exterior ring mean is x = 2, y = 1.
PolygonWithHole ==
    [type |-> "Polygon",
     coordinates |-> << << <<0, 0>>, <<4, 2>>, <<2, 1>> >>,
                        << <<8, 8>>, <<8, 9>> >> >>]
\* Exterior rings of 1, 3 and 2 vertices; the second polygon has a hole.
MultiPolygon132 ==
    [type |-> "MultiPolygon",
     coordinates |-> << << << <<10, 0>> >> >>,
                        << << <<0, 10>>, <<2, 12>>, <<5, 14>> >>, << <<9, 9>> >> >>,
                        << << <<20, 20>>, <<22, 20>> >> >> >>]
\* Exterior rings of 2, 1 and 2 vertices: the first and the third tie.
MultiPolygon212 ==
    [type |-> "MultiPolygon",
     coordinates |-> << << << <<-6, 2>>, <<-4, 4>> >> >>,
                        << << <<30, 30>> >> >>,
                        << << <<6, -2>>, <<8, -2>> >> >> >>]
EmptyRingPolygon == [type |-> "Polygon", coordinates |-> << <<>> >>]
PointGeometry == [type |-> "Point", coordinates |-> <<3, 4>>]
\* A GeometryCollection has the member "geometries" and no "coordinates".
GeometryCollection == [type |-> "GeometryCollection", geometries |-> <<>>]

Geometries ==
    {PolygonWithHole, MultiPolygon132, MultiPolygon212, EmptyRingPolygon,
     PointGeometry, GeometryCollection}

PropertiesSet ==
    {[ADMIN |-> "x"]} \cup
    {[ADMIN |-> "x", ISO_A3 |-> c] : c \in {"", "AFG", "ALB"}}

Features == {[properties |-> p, geometry |-> g] : p \in PropertiesSet, g \in Geometries}

(***************************************************************************)
(* load_country_centroids                                                  *)
(***************************************************************************)
\* dict.get(key): the value, or None when the key is missing.
Get(dict, key) == IF key \in DOMAIN dict THEN dict[key] ELSE None

\* Python truthiness of a str-or-None.
Truthy(code) == code # None /\ code # ""

\* max(coords, key=lambda p: len(p[0])) scans left to right and replaces the
\* candidate only by a strictly greater key.
RECURSIVE MaxFrom(_, _, _)
MaxFrom(coords, i, best) ==
    IF i > Len(coords) THEN best
    ELSE MaxFrom(coords, i + 1,
                 IF Len(coords[i][1]) > Len(best[1]) THEN coords[i] ELSE best)

MainPolygon_LastMax(coords) ==
    coords[CHOOSE i \in 1..Len(coords) :
              /\ \A j \in 1..Len(coords) : Len(coords[j][1]) <= Len(coords[i][1])
              /\ \A j \in (i + 1)..Len(coords) : Len(coords[j][1]) < Len(coords[i][1])]

MainPolygon(coords) == MaxFrom(coords, 2, coords[1])

CentroidRow_Swapped(code, main_polygon) ==
    LET m == MeanAxis0(main_polygon[1])
    IN  [Code |-> code, lat |-> m[1], lon |-> m[2]]

\* points = np.array(main_polygon[0]); lon, lat = np.mean(points, axis=0);
\* the dict appended to centroids.
CentroidRow(code, main_polygon) ==
    LET m == MeanAxis0(main_polygon[1])
    IN  [Code |-> code, lat |-> m[2], lon |-> m[1]]

\* One pass of the for loop body on feature f: the exception it raises
\* ("none" when it completes) and the rows it appends.
LoopBody(f) ==
    LET code == Get(f.properties, "ISO_A3")
        geom == f.geometry
        Done(rows) == [exc |-> "none", rows |-> rows]
        Raise(e) == [exc |-> e, rows |-> <<>>]
        Emit(main_polygon) ==
            IF main_polygon = <<>> THEN Raise("IndexError")
            ELSE IF main_polygon[1] = <<>> THEN Raise("TypeError")
            ELSE Done(<<CentroidRow(code, main_polygon)>>)
    IN  IF ~Truthy(code) THEN Done(<<>>)
        ELSE IF "coordinates" \notin DOMAIN geom THEN Raise("KeyError")
        ELSE IF geom.type = "MultiPolygon" THEN
                 IF geom.coordinates = <<>> THEN Raise("ValueError")
                 ELSE Emit(MainPolygon(geom.coordinates))
        ELSE IF geom.type = "Polygon" THEN Emit(geom.coordinates)
        ELSE Done(<<>>)

(***************************************************************************)
(* load_data, the merge and the script body                                *)
(***************************************************************************)
\* Rows the CSV file may hold; Pct is the column
\* 'Individuals using the Internet (% of population)'.
CsvRows ==
    {[Entity |-> "Afghanistan", Code |-> "AFG", Year |-> 2010, Pct |-> 5],
     [Entity |-> "Afghanistan", Code |-> "AFG", Year |-> 2015, Pct |-> 10],
     [Entity |-> "World", Code |-> "OWID_WRL", Year |-> 2015, Pct |-> 40],
     [Entity |-> "Albania", Code |-> "ALB", Year |-> 2010, Pct |-> 0]}

RECURSIVE SeqsUpTo(_, _)
SeqsUpTo(S, k) ==
    IF k = 0 THEN {<<>>}
    ELSE LET shorter == SeqsUpTo(S, k - 1)
         IN  shorter \cup {Append(q, x) : q \in {r \in shorter : Len(r) = k - 1}, x \in S}

\* load_data: rename the percentage column to Usage, derive Date from Year.
LoadData(file) ==
    [i \in 1..Len(file) |->
        [Entity |-> file[i].Entity, Code |-> file[i].Code, Year |-> file[i].Year,
         Usage |-> file[i].Pct, Date |-> <<file[i].Year, 1, 1>>]]

WithGeo(row, lat, lon) ==
    [Entity |-> row.Entity, Code |-> row.Code, Year |-> row.Year, Usage |-> row.Usage,
     Date |-> row.Date, lat |-> lat, lon |-> lon]

\* pd.merge(left, right, on='Code', how='left'): left order is kept; a left row
\* gives one output row per right row with its Code, in right order, or one row
\* with NaN lat/lon when no right row has its Code.
RECURSIVE MergeLeft(_, _)
MergeLeft(left, right) ==
    IF left = <<>> THEN <<>>
    ELSE LET row == Head(left)
             m == SelectSeq(right, LAMBDA c : c.Code = row.Code)
             out == IF m = <<>> THEN <<WithGeo(row, NaN, NaN)>>
                    ELSE [i \in 1..Len(m) |-> WithGeo(row, m[i].lat, m[i].lon)]
         IN  out \o MergeLeft(Tail(left), right)

\* Lines 71-76: the frame inet_df after the conditional merge.
InetDf(file, cents) ==
    IF cents # <<>> THEN [geo |-> TRUE, rows |-> MergeLeft(LoadData(file), cents)]
    ELSE [geo |-> FALSE, rows |-> LoadData(file)]

\* Line 88, as the set of options of the selectbox.
EntityList(rows) == {"All"} \cup {rows[i].Entity : i \in 1..Len(rows)}

Filtered_All(rows, sel) == rows

\* Lines 94-97.
Filtered(rows, sel) ==
    IF sel = "All" THEN rows ELSE SelectSeq(rows, LAMBDA r : r.Entity = sel)

\* Lines 110-113.
TitleText(sel) ==
    IF sel = "All" THEN <<"Internet Usage (% of population) by Country Over Time">>
    ELSE <<"Internet Usage in ", sel, " (% of population) Over Time">>

RECURSIVE MinOf(_)
MinOf(s) ==
    IF Len(s) = 1 THEN s[1]
    ELSE LET t == MinOf(Tail(s)) IN IF Head(s) <= t THEN Head(s) ELSE t

RECURSIVE MaxOf(_)
MaxOf(s) ==
    IF Len(s) = 1 THEN s[1]
    ELSE LET t == MaxOf(Tail(s)) IN IF Head(s) >= t THEN Head(s) ELSE t

UsageColumn(rows) == [i \in 1..Len(rows) |-> rows[i].Usage]

ColorRange_Filtered(inet_rows, filtered_rows) ==
    IF filtered_rows = <<>> THEN <<NaN, NaN>>
    ELSE <<MinOf(UsageColumn(filtered_rows)), MaxOf(UsageColumn(filtered_rows))>>

\* Line 116, in the scope where inet_df and filtered_df are both defined.
\* min/max of an empty column is NaN.
ColorRange(inet_rows, filtered_rows) ==
    IF inet_rows = <<>> THEN <<NaN, NaN>>
    ELSE <<MinOf(UsageColumn(inet_rows)), MaxOf(UsageColumn(inet_rows))>>

\* Line 120: the frame px.choropleth is given.
ChoroplethData(inet_rows, filtered_rows) == inet_rows

ProjectionScale == 4

Center(row) ==
    <<[center |-> [lon |-> row.lon, lat |-> row.lat],
       projection_scale |-> ProjectionScale]>>

Geos_LastValid(geo, sel, filtered_rows) ==
    IF sel # "All" /\ filtered_rows # <<>> /\ geo
    THEN LET valid == SelectSeq(filtered_rows, LAMBDA r : r.lat # NaN /\ r.lon # NaN)
         IN  IF valid # <<>> THEN Center(valid[Len(valid)]) ELSE <<>>
    ELSE <<>>

\* Lines 134-149: <<>> when fig.update_geos is not called, else its arguments.
Geos(geo, sel, filtered_rows) ==
    IF sel # "All" /\ filtered_rows # <<>>
    THEN IF geo
         THEN LET valid == SelectSeq(filtered_rows,
                                     LAMBDA r : r.lat # NaN /\ r.lon # NaN)
              IN  IF valid # <<>> THEN Center(valid[1]) ELSE <<>>
         ELSE <<>>
    ELSE <<>>

\* Lines 71-154: everything one run of the script body computes and shows.
Script(file, cents, sel, sd, sm) ==
    LET df == InetDf(file, cents)
        filt == Filtered(df.rows, sel)
    IN  [inet_df |-> df,
         filtered_df |-> filt,
         dataframe |-> IF sd THEN <<filt>> ELSE <<>>,
         color_range |-> IF sm THEN <<ColorRange(df.rows, filt)>> ELSE <<>>,
         chart |-> IF sm
                   THEN <<[data |-> ChoroplethData(df.rows, filt),
                           title |-> TitleText(sel),
                           geos |-> Geos(df.geo, sel, filt),
                           key |-> <<"map_", sel>>]>>
                   ELSE <<>>]

(***************************************************************************)
(* The state machine                                                       *)
(***************************************************************************)
Init ==
    /\ geo_file \in {"missing", "corrupt", "ok"}
    /\ csv_file \in SeqsUpTo(CsvRows, MaxRows)
    /\ pc = "start"
    /\ n = 0
    /\ feature = <<>>
    /\ centroids = <<>>
    /\ exception = "none"
    /\ error_shown = FALSE
    /\ inet_df = [geo |-> FALSE, rows |-> <<>>]
    /\ selected_entity = "All"
    /\ show_data = FALSE
    /\ show_map = TRUE
    /\ filtered_df = <<>>
    /\ dataframe = <<>>
    /\ color_range = <<>>
    /\ chart = <<>>

view_vars == <<inet_df, filtered_df, dataframe, color_range, chart>>
widget_vars == <<selected_entity, show_data, show_map>>

\* The script body runs with the given widget values.
Run(sel, sd, sm) ==
    LET out == Script(csv_file, centroids, sel, sd, sm)
    IN  /\ inet_df' = out.inet_df
        /\ filtered_df' = out.filtered_df
        /\ dataframe' = out.dataframe
        /\ color_range' = out.color_range
        /\ chart' = out.chart
        /\ selected_entity' = sel
        /\ show_data' = sd
        /\ show_map' = sm

OpenSource_Uncaught ==
    /\ pc = "start"
    /\ \/ /\ geo_file = "missing"
          /\ pc' = "aborted"
          /\ exception' = "FileNotFoundError"
          /\ error_shown' = error_shown
       \/ /\ geo_file = "corrupt"
          /\ pc' = "aborted"
          /\ exception' = "JSONDecodeError"
          /\ error_shown' = error_shown
       \/ /\ geo_file = "ok"
          /\ pc' = "loop"
          /\ UNCHANGED <<exception, error_shown>>
    /\ UNCHANGED <<geo_file, csv_file, n, feature, centroids, view_vars, widget_vars>>

\* Lines 20-26: open and parse the file.  FileNotFoundError is caught;
\* json.JSONDecodeError is not.
OpenSource ==
    /\ pc = "start"
    /\ \/ /\ geo_file = "missing"
          /\ error_shown' = TRUE
          /\ pc' = "loaded"
          /\ exception' = exception
       \/ /\ geo_file = "corrupt"
          /\ pc' = "aborted"
          /\ exception' = "JSONDecodeError"
          /\ error_shown' = error_shown
       \/ /\ geo_file = "ok"
          /\ pc' = "loop"
          /\ UNCHANGED <<exception, error_shown>>
    /\ UNCHANGED <<geo_file, csv_file, n, feature, centroids, view_vars, widget_vars>>

\* Lines 28-50: the loop takes the next feature of the file.
ProcessFeature ==
    /\ pc = "loop"
    /\ n < MaxFeatures
    /\ \E f \in Features :
          LET r == LoopBody(f)
          IN  /\ feature' = <<f>>
              /\ n' = n + 1
              /\ centroids' = centroids \o r.rows
              /\ exception' = r.exc
              /\ pc' = IF r.exc = "none" THEN "loop" ELSE "aborted"
    /\ UNCHANGED <<geo_file, csv_file, error_shown, view_vars, widget_vars>>

\* Line 52: the file has no more features; the locals go out of scope.
ReturnCentroids ==
    /\ pc = "loop"
    /\ pc' = "loaded"
    /\ n' = 0
    /\ feature' = <<>>
    /\ UNCHANGED <<geo_file, csv_file, centroids, exception, error_shown, view_vars,
                   widget_vars>>

\* First run of the script body, with the widgets' defaults.
FirstRun ==
    /\ pc = "loaded"
    /\ pc' = "idle"
    /\ Run(selected_entity, show_data, show_map)
    /\ UNCHANGED <<geo_file, csv_file, n, feature, centroids, exception, error_shown>>

\* The user picks another entry of the selectbox; the script reruns.
SelectEntity ==
    /\ pc = "idle"
    /\ \E e \in EntityList(inet_df.rows) :
          /\ e # selected_entity
          /\ Run(e, show_data, show_map)
    /\ UNCHANGED <<geo_file, csv_file, pc, n, feature, centroids, exception, error_shown>>

ToggleShowData ==
    /\ pc = "idle"
    /\ Run(selected_entity, ~show_data, show_map)
    /\ UNCHANGED <<geo_file, csv_file, pc, n, feature, centroids, exception, error_shown>>

ToggleShowMap ==
    /\ pc = "idle"
    /\ Run(selected_entity, show_data, ~show_map)
    /\ UNCHANGED <<geo_file, csv_file, pc, n, feature, centroids, exception, error_shown>>

Next ==
    \/ OpenSource
    \/ ProcessFeature
    \/ ReturnCentroids
    \/ FirstRun
    \/ SelectEntity
    \/ ToggleShowData
    \/ ToggleShowMap

Spec == Init /\ [][Next]_vars

(***************************************************************************)
(* Properties                                                              *)
(***************************************************************************)
Idle == pc = "idle"

\* The feature the loop has just processed without raising.
Processed == pc = "loop" /\ feature # <<>>
Code == Get(feature[1].properties, "ISO_A3")
Last == centroids[Len(centroids)]

\* q is the float sum / count.
IsQuotient(q, sum, count) == q[2] > 0 /\ q[1] * count = q[2] * sum

\* A joined row has both coordinates.
HasGeo(row) == inet_df.geo /\ row.lat # NaN /\ row.lon # NaN

\* Indices of the rows of the selected entity, and the k-th smallest of a set.
Matching == {i \in 1..Len(inet_df.rows) : inet_df.rows[i].Entity = selected_entity}
Kth(S, k) == CHOOSE i \in S : Cardinality({j \in S : j < i}) = k - 1

\* C1: whatever the selection, color_range is (minimum usage, maximum usage)
\* over all rows of the unfiltered joined dataset.
C1_ColorRangeGlobal ==
    (Idle /\ color_range # <<>>) =>
        LET us == {inet_df.rows[i].Usage : i \in 1..Len(inet_df.rows)}
            cr == color_range[1]
        IN  IF us = {} THEN cr = <<NaN, NaN>>
            ELSE /\ cr[1] \in us /\ \A u \in us : cr[1] <= u
                 /\ cr[2] \in us /\ \A u \in us : u <= cr[2]

\* An entity is selected whose rows do not reach the global minimum.
C1_Witness ==
    /\ Idle /\ color_range # <<>> /\ selected_entity # "All"
    /\ filtered_df # <<>>
    /\ \A k \in 1..Len(filtered_df) : color_range[1][1] < filtered_df[k].Usage

\* C2: the join keeps every usage record and yields as many rows as there are
\* usage records, row i carrying the lat/lon of the centroid with its code, or
\* absent lat/lon when there is none.
C2_LeftJoinPreservesRows ==
    Idle =>
        LET usage == LoadData(csv_file)
        IN  /\ Len(inet_df.rows) = Len(usage)
            /\ \A i \in 1..Len(usage) :
                  LET row == inet_df.rows[i]
                      m == {k \in 1..Len(centroids) : centroids[k].Code = usage[i].Code}
                  IN  /\ row.Entity = usage[i].Entity /\ row.Code = usage[i].Code
                      /\ row.Year = usage[i].Year /\ row.Usage = usage[i].Usage
                      /\ IF m = {} THEN ~HasGeo(row)
                         ELSE \E k \in m : row.lat = centroids[k].lat
                                           /\ row.lon = centroids[k].lon

\* C3: the zoom target is absent for "All"; otherwise it is the (lat, lon) of
\* the first row of the selected entity that has both coordinates, and absent
\* when the entity has no such row.
C3_ZoomTarget ==
    (Idle /\ chart # <<>>) =>
        LET valid == {i \in Matching : HasGeo(inet_df.rows[i])}
            geos == chart[1].geos
        IN  IF selected_entity = "All" \/ valid = {} THEN geos = <<>>
            ELSE /\ geos # <<>>
                 /\ geos[1].center.lat = inet_df.rows[Kth(valid, 1)].lat
                 /\ geos[1].center.lon = inet_df.rows[Kth(valid, 1)].lon

\* The map zooms on an entity whose rows carry different coordinates.
C3_Witness ==
    /\ Idle /\ chart # <<>> /\ selected_entity # "All"
    /\ chart[1].geos # <<>>
    /\ \E i \in Matching : HasGeo(inet_df.rows[i])
                           /\ inet_df.rows[i].lat # chart[1].geos[1].center.lat

\* C4: filtered_df is the whole joined dataset for "All", and otherwise exactly
\* the rows whose Entity equals the selection, in dataset order.
C4_FilteredRows ==
    Idle =>
        IF selected_entity = "All" THEN filtered_df = inet_df.rows
        ELSE /\ Len(filtered_df) = Cardinality(Matching)
             /\ \A k \in 1..Len(filtered_df) :
                   filtered_df[k] = inet_df.rows[Kth(Matching, k)]

\* An entity is selected that owns several rows, but not all of them.
C4_Witness ==
    /\ Idle /\ selected_entity # "All"
    /\ Len(filtered_df) >= 2
    /\ Len(filtered_df) < Len(inet_df.rows)

\* C5: when the map is shown, the rows given to the chart are filtered_df.
C5_MapGetsFilteredRows ==
    (Idle /\ chart # <<>>) => chart[1].data = filtered_df

\* C6: for a MultiPolygon the centroid is that of the exterior ring of the
\* polygon with the most exterior vertices, the first such polygon on a tie.
C6_LargestPolygonFirstOnTie ==
    (Processed /\ Truthy(Code) /\ feature[1].geometry.type = "MultiPolygon") =>
        LET coords == feature[1].geometry.coordinates
            size(i) == Len(coords[i][1])
            k == CHOOSE i \in 1..Len(coords) :
                    /\ \A j \in 1..Len(coords) : size(j) <= size(i)
                    /\ \A j \in 1..(i - 1) : size(j) < size(i)
            ring == coords[k][1]
        IN  /\ Last.Code = Code
            /\ IsQuotient(Last.lon, Sum(Column(ring, 1)), Len(ring))
            /\ IsQuotient(Last.lat, Sum(Column(ring, 2)), Len(ring))

\* A MultiPolygon whose largest exterior ring size is shared by two polygons.
C6_Witness ==
    /\ Processed /\ Truthy(Code) /\ feature[1].geometry.type = "MultiPolygon"
    /\ LET coords == feature[1].geometry.coordinates
       IN  \E i, j \in 1..Len(coords) :
              /\ i < j /\ Len(coords[i][1]) = Len(coords[j][1])
              /\ \A l \in 1..Len(coords) : Len(coords[l][1]) <= Len(coords[i][1])

\* C7: for a Polygon with a non-empty exterior ring, lat is the mean of the y
\* and lon the mean of the x of the vertices of the first ring alone.
C7_PolygonCentroid ==
    (/\ Processed /\ Truthy(Code) /\ feature[1].geometry.type = "Polygon"
     /\ feature[1].geometry.coordinates[1] # <<>>) =>
        LET ring == feature[1].geometry.coordinates[1]
        IN  /\ Last.Code = Code
            /\ IsQuotient(Last.lon, Sum(Column(ring, 1)), Len(ring))
            /\ IsQuotient(Last.lat, Sum(Column(ring, 2)), Len(ring))

\* A Polygon with a hole has been processed.
C7_Witness ==
    /\ Processed /\ Truthy(Code) /\ feature[1].geometry.type = "Polygon"
    /\ Len(feature[1].geometry.coordinates) >= 2
    /\ feature[1].geometry.coordinates[1] # <<>>

\* C8: the centroid table holds a single entry per country code, and that
\* entry carries the lat/lon of the last feature with the code.
C8_OneEntryPerCode ==
    /\ \A i, j \in 1..Len(centroids) :
          centroids[i].Code = centroids[j].Code => i = j
    /\ (Processed /\ LoopBody(feature[1]).rows # <<>>) =>
          \A i \in 1..Len(centroids) :
             centroids[i].Code = Code => centroids[i] = Last

\* C9: a feature without ISO_A3, with an empty ISO_A3, or with a geometry type
\* other than Polygon and MultiPolygon raises no error and the loop goes on.
C9_SkipIsSilent ==
    (/\ feature # <<>>
     /\ \/ ~Truthy(Code)
        \/ feature[1].geometry.type \notin {"Polygon", "MultiPolygon"}) =>
        exception = "none" /\ pc = "loop"

\* What C10 promises once the geometry source has been handled.
Degraded ==
    /\ exception = "none"
    /\ pc \in {"loaded", "idle"}
    /\ error_shown
    /\ centroids = <<>>
    /\ Idle =>
          /\ inet_df = [geo |-> FALSE, rows |-> LoadData(csv_file)]
          /\ selected_entity \in EntityList(inet_df.rows)
          /\ chart # <<>> => chart[1].geos = <<>>

\* C10 as stated: a geometry source that is missing or unparsable gives an
\* empty centroid set, a message, a pass-through join and zoom-less views.
C10_MissingOrUnparsable ==
    (geo_file \in {"missing", "corrupt"} /\ pc # "start") => Degraded

\* C10 amended: a geometry source that is missing gives an empty centroid set,
\* a message, a pass-through join and zoom-less views.
C10_MissingFile ==
    (geo_file = "missing" /\ pc # "start") => Degraded

\* With the file missing, an entity is selected and the map is shown.
C10_Witness ==
    /\ geo_file = "missing" /\ Idle
    /\ selected_entity # "All" /\ chart # <<>> /\ filtered_df # <<>>

====
